---------------------------- MODULE Spec2Model ----------------------------
(***************************************************************************)
(* A model of the Todo List Manager (src/src/todo.c, src/src/file_io.c,    *)
(* src/src/main.c).                                                        *)
(*                                                                         *)
(* The TodoList is the triple (todos, count, next_id).  `todos` holds the  *)
(* slots list->todos[0 .. count-1], slot i of the C array being todos[i+1];*)
(* the slots from `count` on are never read by the code before it has      *)
(* rewritten them (todo_create and load_todos_from_file write a slot       *)
(* before they raise count over it), so they are not part of the state.    *)
(* A char buffer is modelled by the C string it holds (the characters      *)
(* before the first NUL), a NULL pointer by the value NULL.                *)
(***************************************************************************)
EXTENDS Integers, Sequences, FiniteSets, TLC

(***************************************************************************)
(* Program constants.  The three sizes are the #defines of todo.h at a     *)
(* reduced scale; the enumerators keep their values.                       *)
(***************************************************************************)
MAX_TITLE_LENGTH == 2
MAX_DESC_LENGTH == 2
MAX_TODOS == 2

\* char buffer[4096] of create_backup, in items of a file
BACKUP_BUFFER == 2

PRIORITY_LOW == 1
PRIORITY_MEDIUM == 2
PRIORITY_HIGH == 3

STATUS_PENDING == 0
STATUS_COMPLETED == 1

(***************************************************************************)
(* Bounds of the model: the largest ID a create may hand out, the largest  *)
(* value the clock reaches, the number of runs of the program.             *)
(***************************************************************************)
MaxId == 3
MaxTime == 2
MaxSessions == 2

VARIABLES
  todos,    \* list->todos[0 .. count-1]
  count,    \* list->count
  next_id,  \* list->next_id
  clock,    \* what time(NULL) returns
  last,     \* the call the caller is looking at: its name, arguments, return value,
            \* the line it printed and the list as it was before; NoCall at the menu
  issued,   \* the IDs returned by the successful creates, in order, since the list
            \* was created or a load was last called on it
  pc,       \* where main (and the save it called) stands; "off": no process runs
  sv,       \* the save under way: whether the program exits after it, the target as it
            \* was when the save was called, what create_backup returned
  target,   \* the file data/todos.dat
  backup,   \* the file data/todos.dat.backup
  snap,     \* the list a save has written to the target in full, while that file stands
  ever_saved, \* a save has returned 0
  sessions, \* the runs of the program so far
  export    \* the text file an export is asked to write, and the file of that
            \* name with ".backup" after it

vars == <<todos, count, next_id, clock, last, issued,
          pc, sv, target, backup, snap, ever_saved, sessions, export>>

listvars == <<todos, count, next_id, clock, last, issued>>

iovars == <<pc, sv, target, backup, snap, ever_saved, sessions, export>>

\* The list as a value.
List(ts, n, nid) == [todos |-> ts, count |-> n, next_id |-> nid]

store == List(todos, count, next_id)

(***************************************************************************)
(* C strings.                                                              *)
(***************************************************************************)
NULL == <<"NULL">>

Str(n) == [i \in 1..n |-> "a"]

strlen(s) == Len(s)

Min(a, b) == IF a <= b THEN a ELSE b

\* strncpy(dst, src, n); dst[n] = '\0': at most n characters of src.
strncpy(src, n) == SubSeq(src, 1, Min(strlen(src), n))

(***************************************************************************)
(* The arguments the calls are made with: a title or description is NULL,  *)
(* or a string of every length up to the maximum; a priority is drawn from *)
(* two enumerators, and no more than one when another argument is refused  *)
(* (the refusing branches do not read it).                                 *)
(***************************************************************************)
Titles == {NULL} \cup {Str(n) : n \in 0..MAX_TITLE_LENGTH}

UpdateTitles == {NULL, Str(0), Str(MAX_TITLE_LENGTH)}

Descriptions == {NULL} \cup {Str(n) : n \in 1..MAX_DESC_LENGTH}

Accepted(title, description) ==
  /\ title = NULL \/ strlen(title) < MAX_TITLE_LENGTH
  /\ description = NULL \/ strlen(description) < MAX_DESC_LENGTH

CreateArgs ==
  { a \in Titles \X Descriptions \X {PRIORITY_LOW, PRIORITY_HIGH} :
      a[3] = PRIORITY_LOW \/ (a[1] # NULL /\ Accepted(a[1], a[2])) }

UpdateArgs ==
  { a \in UpdateTitles \X Descriptions \X {-1, PRIORITY_LOW, PRIORITY_HIGH + 1} :
      a[3] = -1 \/ Accepted(a[1], a[2]) }

Ids == 1..MaxId

(***************************************************************************)
(* What a call leaves for its caller.                                      *)
(***************************************************************************)
NoCall ==
  [op |-> "none", id |-> 0, title |-> NULL, description |-> NULL, priority |-> -1,
   ret |-> 0, msg |-> "", old |-> List(<<>>, 0, 0)]

Called(op, id, title, description, priority, ret, msg) ==
  [op |-> op, id |-> id, title |-> title, description |-> description,
   priority |-> priority, ret |-> ret, msg |-> msg, old |-> store]

AtMenu == last.op = "none"

(***************************************************************************)
(* todo_list_create                                                        *)
(***************************************************************************)
todo_list_create ==
  /\ todos = <<>>
  /\ count = 0
  /\ next_id = 1

\* a variant with room for one record more than the array holds
CapacityOneMore == MAX_TODOS + 1

capacity == MAX_TODOS

(***************************************************************************)
(* todo_find_by_id: the position of the first slot below count with the    *)
(* given id, 0 for NULL.                                                   *)
(***************************************************************************)
\* a variant whose loop stops one slot early
FindSkipsLast(ts, n, id) ==
  IF \E i \in 1..(n - 1) : ts[i].id = id
  THEN CHOOSE i \in 1..(n - 1) : ts[i].id = id /\ \A j \in 1..(i - 1) : ts[j].id # id
  ELSE 0

todo_find_by_id(ts, n, id) ==
  IF \E i \in 1..n : ts[i].id = id
  THEN CHOOSE i \in 1..n : ts[i].id = id /\ \A j \in 1..(i - 1) : ts[j].id # id
  ELSE 0

(***************************************************************************)
(* todo_create                                                             *)
(***************************************************************************)
ListFullOffByOne(n) == n > capacity

\* list->count >= list->capacity
ListFull(n) == n >= capacity

TitleTooLongOffByOne(title) == strlen(title) > MAX_TITLE_LENGTH

\* strlen(title) >= MAX_TITLE_LENGTH
TitleTooLong(title) == strlen(title) >= MAX_TITLE_LENGTH

DescTooLong(description) == description # NULL /\ strlen(description) >= MAX_DESC_LENGTH

NewTodoStale(id, title, description, priority, now) ==
  [ id          |-> id,
    title       |-> strncpy(title, MAX_TITLE_LENGTH - 1),
    description |-> IF description # NULL
                    THEN strncpy(description, MAX_DESC_LENGTH - 1)
                    ELSE <<>>,
    priority    |-> PRIORITY_MEDIUM,
    status      |-> STATUS_PENDING,
    created_at  |-> now,
    updated_at  |-> 0 ]

\* a variant that numbers the new record by its position
NewTodoIdFromCount(id, title, description, priority, now) ==
  [ id          |-> count + 1,
    title       |-> strncpy(title, MAX_TITLE_LENGTH - 1),
    description |-> IF description # NULL
                    THEN strncpy(description, MAX_DESC_LENGTH - 1)
                    ELSE <<>>,
    priority    |-> priority,
    status      |-> STATUS_PENDING,
    created_at  |-> now,
    updated_at  |-> now ]

NewTodo(id, title, description, priority, now) ==
  [ id          |-> id,
    title       |-> strncpy(title, MAX_TITLE_LENGTH - 1),
    description |-> IF description # NULL
                    THEN strncpy(description, MAX_DESC_LENGTH - 1)
                    ELSE <<>>,
    priority    |-> priority,
    status      |-> STATUS_PENDING,
    created_at  |-> now,
    updated_at  |-> now ]

\* new_todo->id = list->next_id++
NextIdKept(n) == n

NextIdAfterCreate(n) == n + 1

todo_create(title, description, priority) ==
  IF title = NULL \/ ListFull(count)
  THEN /\ last' = Called("create", 0, title, description, priority, -1, "invalid_or_full")
       /\ UNCHANGED <<todos, count, next_id, clock, issued>>
  ELSE IF TitleTooLong(title)
  THEN /\ last' = Called("create", 0, title, description, priority, -1, "title_too_long")
       /\ UNCHANGED <<todos, count, next_id, clock, issued>>
  ELSE IF DescTooLong(description)
  THEN /\ last' = Called("create", 0, title, description, priority, -1, "desc_too_long")
       /\ UNCHANGED <<todos, count, next_id, clock, issued>>
  ELSE /\ next_id <= MaxId
       /\ todos' = Append(SubSeq(todos, 1, count),
                          NewTodo(next_id, title, description, priority, clock))
       /\ next_id' = NextIdAfterCreate(next_id)
       /\ count' = count + 1
       /\ last' = Called("create", 0, title, description, priority, next_id, "created")
       /\ issued' = Append(issued, next_id)
       /\ UNCHANGED clock

(***************************************************************************)
(* todo_delete                                                             *)
(***************************************************************************)
\* for (i = index; i < count - 1; i++) todos[i] = todos[i + 1]; followed by count--
DropLast(ts, n, index) == [i \in 1..(n - 1) |-> ts[i]]

ShiftDown(ts, n, index) ==
  [i \in 1..(n - 1) |-> IF i < index THEN ts[i] ELSE ts[i + 1]]

todo_delete(id) ==
  LET index == todo_find_by_id(todos, count, id) IN
  IF index = 0
  THEN /\ last' = Called("delete", id, NULL, NULL, -1, -1, "not_found")
       /\ UNCHANGED <<todos, count, next_id, clock, issued>>
  ELSE /\ todos' = ShiftDown(todos, count, index)
       /\ count' = count - 1
       /\ last' = Called("delete", id, NULL, NULL, -1, 0, "deleted")
       /\ UNCHANGED <<next_id, clock, issued>>

(***************************************************************************)
(* todo_update                                                             *)
(***************************************************************************)
\* a variant that dates a record anew when it gets a title
WithTitleDatedAnew(todo, title) ==
  IF title # NULL
  THEN [todo EXCEPT !.title = strncpy(title, MAX_TITLE_LENGTH - 1), !.created_at = clock]
  ELSE todo

\* strncpy(todo->title, title, MAX_TITLE_LENGTH - 1), when a title is provided
WithTitle(todo, title) ==
  IF title # NULL
  THEN [todo EXCEPT !.title = strncpy(title, MAX_TITLE_LENGTH - 1)]
  ELSE todo

\* strncpy(todo->description, description, MAX_DESC_LENGTH - 1), when one is provided
WithDescription(todo, description) ==
  IF description # NULL
  THEN [todo EXCEPT !.description = strncpy(description, MAX_DESC_LENGTH - 1)]
  ELSE todo

\* a variant that stores whatever priority it is given
WithPriorityUnchecked(todo, priority) == [todo EXCEPT !.priority = priority]

\* the priority is stored only inside PRIORITY_LOW .. PRIORITY_HIGH
WithPriority(todo, priority) ==
  IF priority >= PRIORITY_LOW /\ priority <= PRIORITY_HIGH
  THEN [todo EXCEPT !.priority = priority]
  ELSE todo

\* the record as the title step leaves it when the description is then refused
TodoAtDescReject(todo, title) == WithTitle(todo, title)

\* a variant that sets updated_at only when a field has got a new value
UpdateStampsOnChange(id, title, description, priority) ==
  LET index == todo_find_by_id(todos, count, id)
      after == WithPriority(WithDescription(WithTitle(todos[index], title),
                                            description), priority)
  IN
  IF index = 0
  THEN /\ last' = Called("update", id, title, description, priority, -1, "not_found")
       /\ UNCHANGED <<todos, count, next_id, clock, issued>>
  ELSE IF title # NULL /\ TitleTooLong(title)
  THEN /\ last' = Called("update", id, title, description, priority, -1, "title_too_long")
       /\ UNCHANGED <<todos, count, next_id, clock, issued>>
  ELSE IF DescTooLong(description)
  THEN /\ todos' = [todos EXCEPT ![index] = TodoAtDescReject(todos[index], title)]
       /\ last' = Called("update", id, title, description, priority, -1, "desc_too_long")
       /\ UNCHANGED <<count, next_id, clock, issued>>
  ELSE /\ todos' = [todos EXCEPT ![index] =
                      IF after = todos[index]
                      THEN after
                      ELSE [after EXCEPT !.updated_at = clock]]
       /\ last' = Called("update", id, title, description, priority, 0, "updated")
       /\ UNCHANGED <<count, next_id, clock, issued>>

todo_update(id, title, description, priority) ==
  LET index == todo_find_by_id(todos, count, id) IN
  IF index = 0
  THEN /\ last' = Called("update", id, title, description, priority, -1, "not_found")
       /\ UNCHANGED <<todos, count, next_id, clock, issued>>
  ELSE IF title # NULL /\ TitleTooLong(title)
  THEN /\ last' = Called("update", id, title, description, priority, -1, "title_too_long")
       /\ UNCHANGED <<todos, count, next_id, clock, issued>>
  ELSE IF DescTooLong(description)
  THEN /\ todos' = [todos EXCEPT ![index] = TodoAtDescReject(todos[index], title)]
       /\ last' = Called("update", id, title, description, priority, -1, "desc_too_long")
       /\ UNCHANGED <<count, next_id, clock, issued>>
  ELSE /\ todos' = [todos EXCEPT ![index] =
                      [WithPriority(WithDescription(WithTitle(todos[index], title),
                                                    description), priority)
                         EXCEPT !.updated_at = clock]]
       /\ last' = Called("update", id, title, description, priority, 0, "updated")
       /\ UNCHANGED <<count, next_id, clock, issued>>

(***************************************************************************)
(* todo_complete, todo_mark_pending                                        *)
(***************************************************************************)
\* a variant that stamps updated_at also when the status is already the one asked for
SetStatusAlwaysStamps(op, id, status, done) ==
  LET index == todo_find_by_id(todos, count, id) IN
  IF index = 0
  THEN /\ last' = Called(op, id, NULL, NULL, -1, -1, "not_found")
       /\ UNCHANGED <<todos, count, next_id, clock, issued>>
  ELSE /\ todos' = [todos EXCEPT ![index] =
                      [@ EXCEPT !.status = status, !.updated_at = clock]]
       /\ last' = Called(op, id, NULL, NULL, -1, 0,
                         IF todos[index].status = status THEN "already" ELSE done)
       /\ UNCHANGED <<count, next_id, clock, issued>>

SetStatus(op, id, status, done) ==
  LET index == todo_find_by_id(todos, count, id) IN
  IF index = 0
  THEN /\ last' = Called(op, id, NULL, NULL, -1, -1, "not_found")
       /\ UNCHANGED <<todos, count, next_id, clock, issued>>
  ELSE IF todos[index].status = status
  THEN /\ last' = Called(op, id, NULL, NULL, -1, 0, "already")
       /\ UNCHANGED <<todos, count, next_id, clock, issued>>
  ELSE /\ todos' = [todos EXCEPT ![index] =
                      [@ EXCEPT !.status = status, !.updated_at = clock]]
       /\ last' = Called(op, id, NULL, NULL, -1, 0, done)
       /\ UNCHANGED <<count, next_id, clock, issued>>

todo_complete(id) == SetStatus("complete", id, STATUS_COMPLETED, "completed")

todo_mark_pending(id) == SetStatus("mark_pending", id, STATUS_PENDING, "pending")

(***************************************************************************)
(* The caller has looked at the result and goes on to its next call        *)
(* (main.c: "Press Enter to continue").                                    *)
(***************************************************************************)
Return ==
  /\ pc = "menu"
  /\ ~AtMenu
  /\ last' = NoCall
  /\ UNCHANGED <<todos, count, next_id, clock, issued>>

(***************************************************************************)
(* Files.  A file is the sequence of the items written to it: the two ints *)
(* of the header, then one block per record (the Todo struct as it stands  *)
(* in memory).                                                             *)
(***************************************************************************)
NoFile == [exists |-> FALSE, data |-> <<>>]

File(data) == [exists |-> TRUE, data |-> data]

\* a variant that finds every file
FileAlwaysThere(f) == TRUE

file_exists(f) == f.exists

\* what save_todos_to_file writes when every fwrite succeeds
Snapshot(l) == <<l.count, l.next_id>> \o SubSeq(l.todos, 1, l.count)

NoSave == [exiting |-> FALSE, pre |-> NoFile, bk |-> "none"]

NoSnap == List(<<>>, 0, 0)

NoExport == [file |-> NoFile, backup |-> NoFile]

Prefixes(data) == {SubSeq(data, 1, k) : k \in 0..Len(data)}

(***************************************************************************)
(* Spec: every sequence of calls of the Record Store on a list started by  *)
(* todo_list_create, all made at one reading of the clock (time_t counts   *)
(* seconds), whatever that reading is.  No file is touched.                *)
(***************************************************************************)
NoIO ==
  /\ sv = NoSave
  /\ target = NoFile
  /\ backup = NoFile
  /\ snap = NoSnap
  /\ ever_saved = FALSE
  /\ sessions = 1
  /\ export = NoExport

Init ==
  /\ todo_list_create
  /\ clock \in 0..MaxTime
  /\ last = NoCall
  /\ issued = <<>>
  /\ pc = "menu"
  /\ NoIO

Next ==
  \/ AtMenu /\ UNCHANGED iovars
            /\ \E a \in CreateArgs : todo_create(a[1], a[2], a[3])
  \/ AtMenu /\ UNCHANGED iovars
            /\ \E id \in Ids, a \in UpdateArgs : todo_update(id, a[1], a[2], a[3])
  \/ AtMenu /\ UNCHANGED iovars
            /\ \E id \in Ids : todo_delete(id)
  \/ AtMenu /\ UNCHANGED iovars
            /\ \E id \in Ids : todo_complete(id)
  \/ AtMenu /\ UNCHANGED iovars
            /\ \E id \in Ids : todo_mark_pending(id)
  \/ Return /\ UNCHANGED iovars

Spec == Init /\ [][Next]_vars

(***************************************************************************)
(* SpecQ: the calls of Spec and, between them, calls of todo_find_by_id    *)
(* itself; what it returns is the position of the record, 0 for NULL.      *)
(***************************************************************************)
FindById(id) ==
  LET index == todo_find_by_id(todos, count, id) IN
  /\ last' = Called("find", id, NULL, NULL, -1, index,
                    IF index = 0 THEN "not_found" ELSE "found")
  /\ UNCHANGED <<todos, count, next_id, clock, issued>>

NextQ ==
  \/ Next
  \/ AtMenu /\ UNCHANGED iovars
            /\ \E id \in Ids : FindById(id)

SpecQ == Init /\ [][NextQ]_vars

(***************************************************************************)
(* SpecT: the calls of the Record Store while time passes.  time(NULL)     *)
(* never goes back; a call and the look at its result fall in one second.  *)
(***************************************************************************)
Tick ==
  /\ AtMenu
  /\ clock < MaxTime
  /\ clock' = clock + 1
  /\ UNCHANGED <<todos, count, next_id, last, issued>>

TimedCreateArgs == {<<Str(1), NULL, PRIORITY_LOW>>}

TimedUpdateArgs == {<<NULL, NULL, -1>>, <<Str(0), NULL, PRIORITY_HIGH>>}

NextT ==
  \/ AtMenu /\ UNCHANGED iovars
            /\ \E a \in TimedCreateArgs : todo_create(a[1], a[2], a[3])
  \/ AtMenu /\ UNCHANGED iovars
            /\ \E id \in Ids, a \in TimedUpdateArgs : todo_update(id, a[1], a[2], a[3])
  \/ AtMenu /\ UNCHANGED iovars
            /\ \E id \in Ids : todo_delete(id)
  \/ AtMenu /\ UNCHANGED iovars
            /\ \E id \in Ids : todo_complete(id)
  \/ AtMenu /\ UNCHANGED iovars
            /\ \E id \in Ids : todo_mark_pending(id)
  \/ Tick /\ UNCHANGED iovars
  \/ Return /\ UNCHANGED iovars

SpecT == Init /\ [][NextT]_vars

(***************************************************************************)
(* load_todos_from_file(list, NULL): the return value, the line printed    *)
(* and the list it leaves.  fread stores the blocks it reads into          *)
(* list->todos before the number read is compared with the header's count. *)
(***************************************************************************)
HeaderCount(data) == data[1]

HeaderNextIdRecomputed(data) == data[1] + 1

HeaderNextId(data) == data[2]

\* a variant that asks fread for one block fewer
BlocksReadOneFewer(data, n) == SubSeq(data, 3, Min(Len(data), 1 + n))

\* the blocks fread(list->todos, sizeof(Todo), n, file) gets
BlocksRead(data, n) == SubSeq(data, 3, Min(Len(data), 2 + n))

\* list->todos[0 .. count-1] once fread has stored `blocks` from slot 0 on
Overwritten(l, blocks) ==
  [i \in 1..l.count |-> IF i <= Len(blocks) THEN blocks[i] ELSE l.todos[i]]

Loaded(ret, msg, l) == [ret |-> ret, msg |-> msg, list |-> l]

load_todos_from_file(l, f) ==
  IF ~file_exists(f)
  THEN Loaded(0, "no_file", l)
  ELSE IF Len(f.data) < 2
  THEN Loaded(-1, "header", l)
  ELSE IF HeaderCount(f.data) < 0 \/ HeaderCount(f.data) > MAX_TODOS
  THEN Loaded(-1, "invalid_count", l)
  ELSE LET blocks == BlocksRead(f.data, HeaderCount(f.data)) IN
       IF Len(blocks) # HeaderCount(f.data)
       THEN Loaded(-1, "read", List(Overwritten(l, blocks), l.count, l.next_id))
       ELSE Loaded(0, "loaded", List(blocks, HeaderCount(f.data), HeaderNextId(f.data)))

(***************************************************************************)
(* SpecL: load_todos_from_file called on a list that calls of the Record   *)
(* Store have filled, with whatever stands at data/todos.dat: no file, a   *)
(* file cut short, a header with any count and next_id, fewer or more      *)
(* blocks than the header says.                                            *)
(***************************************************************************)
FileTodo(i) == NewTodo(i, Str(1), NULL, PRIORITY_HIGH, 0)

DiskCounts == -1..(MAX_TODOS + 1)

DiskNextIds == {0, MaxId}

DiskData ==
  {<<>>, <<1>>} \cup
  { <<c, n>> \o [i \in 1..b |-> FileTodo(i)] :
      c \in DiskCounts, n \in DiskNextIds, b \in 0..(MAX_TODOS + 1) }

DiskFiles == {NoFile} \cup {File(d) : d \in DiskData}

\* something other than this program leaves a file at data/todos.dat, or none
Plant ==
  /\ AtMenu
  /\ \E f \in DiskFiles : target' = f
  /\ UNCHANGED <<listvars, pc, sv, backup, snap, ever_saved, sessions, export>>

\* load_todos_from_file(list, NULL); fopen(file, "rb") may fail on a file that is there
Load ==
  /\ AtMenu
  /\ \/ LET r == load_todos_from_file(store, target) IN
          /\ todos' = r.list.todos
          /\ count' = r.list.count
          /\ next_id' = r.list.next_id
          /\ last' = [NoCall EXCEPT !.op = "load", !.ret = r.ret, !.msg = r.msg,
                                    !.old = store]
     \/ /\ file_exists(target)
        /\ last' = [NoCall EXCEPT !.op = "load", !.ret = -1, !.msg = "open", !.old = store]
        /\ UNCHANGED <<todos, count, next_id>>
  /\ issued' = <<>>
  /\ UNCHANGED <<clock, iovars>>

NextL ==
  \/ AtMenu /\ UNCHANGED iovars
            /\ \E a \in TimedCreateArgs : todo_create(a[1], a[2], a[3])
  \/ AtMenu /\ UNCHANGED iovars
            /\ \E id \in Ids, a \in TimedUpdateArgs : todo_update(id, a[1], a[2], a[3])
  \/ AtMenu /\ UNCHANGED iovars
            /\ \E id \in Ids : todo_delete(id)
  \/ AtMenu /\ UNCHANGED iovars
            /\ \E id \in Ids : todo_complete(id)
  \/ AtMenu /\ UNCHANGED iovars
            /\ \E id \in Ids : todo_mark_pending(id)
  \/ Plant
  \/ Load
  \/ Return /\ UNCHANGED iovars

\* the calls are all made at one reading of the clock, later than the times in the files
InitL == Init /\ clock = MaxTime

SpecL == InitL /\ [][NextL]_vars

(***************************************************************************)
(* main, from its start to the menu: todo_list_create, then the load of    *)
(* the default file, whose return value main does not look at.             *)
(***************************************************************************)
Start ==
  /\ pc = "off"
  /\ sessions < MaxSessions
  /\ sessions' = sessions + 1
  /\ LET r == load_todos_from_file(List(<<>>, 0, 1), target) IN
       /\ todos' = r.list.todos
       /\ count' = r.list.count
       /\ next_id' = r.list.next_id
       /\ last' = [NoCall EXCEPT !.op = "load", !.ret = r.ret, !.msg = r.msg,
                                 !.old = List(<<>>, 0, 1)]
  /\ issued' = <<>>
  /\ pc' = "menu"
  /\ UNCHANGED <<clock, sv, target, backup, snap, ever_saved, export>>

(***************************************************************************)
(* save_todos_to_file(list, NULL), step by step.                           *)
(***************************************************************************)
\* a variant in which the end of input at "Press Enter" leaves without a save
SaveCallSkipsAtEof(exiting) ==
  /\ pc = "menu"
  /\ IF exiting THEN TRUE ELSE AtMenu
  /\ sv' = [exiting |-> exiting, pre |-> target, bk |-> "none"]
  /\ IF exiting /\ ~AtMenu
     THEN pc' = "exit" /\ UNCHANGED last
     ELSE /\ pc' = IF file_exists(target) THEN "bk_open" ELSE "sv_open"
          /\ last' = NoCall
  /\ UNCHANGED <<todos, count, next_id, clock, issued, target, backup, snap,
                 ever_saved, sessions, export>>

\* main calls it: menu choice 7, or choice 9 / end of input, after which main leaves
SaveCall(exiting) ==
  /\ pc = "menu"
  /\ IF exiting THEN TRUE ELSE AtMenu
  /\ sv' = [exiting |-> exiting, pre |-> target, bk |-> "none"]
  /\ pc' = IF file_exists(target) THEN "bk_open" ELSE "sv_open"
  /\ last' = NoCall
  /\ UNCHANGED <<todos, count, next_id, clock, issued, target, backup, snap,
                 ever_saved, sessions, export>>

\* a variant in which save_todos_to_file gives up when the backup cannot be opened
BackupOpenAborts ==
  /\ pc = "bk_open"
  /\ \/ /\ backup' = File(<<>>)
        /\ pc' = "bk_copy"
        /\ UNCHANGED <<sv, last>>
     \/ /\ sv' = [sv EXCEPT !.bk = "failed"]
        /\ pc' = IF sv.exiting THEN "exit" ELSE "menu"
        /\ last' = [NoCall EXCEPT !.op = "save", !.ret = -1, !.old = store]
        /\ UNCHANGED backup
  /\ UNCHANGED <<todos, count, next_id, clock, issued, target, snap,
                 ever_saved, sessions, export>>

\* create_backup: fopen(backup_filename, "wb")
BackupOpen ==
  /\ pc = "bk_open"
  /\ \/ /\ backup' = File(<<>>)
        /\ pc' = "bk_copy"
        /\ UNCHANGED sv
     \/ /\ sv' = [sv EXCEPT !.bk = "failed"]
        /\ pc' = "sv_open"
        /\ UNCHANGED backup
  /\ UNCHANGED <<listvars, target, snap, ever_saved, sessions, export>>

ChunkDropsTail(data, done) ==
  SubSeq(data, done + 1, Min(Len(data) - 1, done + BACKUP_BUFFER))

\* what one fread(buffer, 1, sizeof(buffer), source) gets at offset `done`
Chunk(data, done) == SubSeq(data, done + 1, Min(Len(data), done + BACKUP_BUFFER))

\* create_backup: one turn of the copy loop
BackupCopy ==
  /\ pc = "bk_copy"
  /\ LET chunk == Chunk(target.data, Len(backup.data)) IN
       IF Len(chunk) = 0
       THEN /\ sv' = [sv EXCEPT !.bk = "ok"]
            /\ pc' = "sv_open"
            /\ UNCHANGED backup
       ELSE \/ /\ backup' = File(backup.data \o chunk)
               /\ UNCHANGED <<sv, pc>>
            \/ /\ sv' = [sv EXCEPT !.bk = "failed"]
               /\ pc' = "sv_open"
               /\ UNCHANGED backup
  /\ UNCHANGED <<listvars, target, snap, ever_saved, sessions, export>>

\* save_todos_to_file returns
SaveReturns(ret) ==
  /\ last' = [NoCall EXCEPT !.op = "save", !.ret = ret, !.old = store]
  /\ pc' = IF sv.exiting THEN "exit" ELSE "menu"
  /\ IF ret = 0 THEN snap' = store ELSE TRUE
  /\ ever_saved' = (ever_saved \/ ret = 0)

\* fopen(file_to_use, "wb")
SaveOpen ==
  /\ pc = "sv_open"
  /\ \/ /\ target' = File(<<>>)
        /\ snap' = NoSnap
        /\ pc' = "sv_hdr"
        /\ UNCHANGED <<last, ever_saved>>
     \/ /\ SaveReturns(-1)
        /\ UNCHANGED <<target, snap>>
  /\ UNCHANGED <<todos, count, next_id, clock, issued, sv, backup, sessions,
                 export>>

\* the two fwrite of the header; with no record to write, fclose and return 0
SaveHeader ==
  /\ pc = "sv_hdr"
  /\ \/ /\ target' = File(<<count, next_id>>)
        /\ IF count > 0
           THEN pc' = "sv_recs" /\ UNCHANGED <<last, snap, ever_saved>>
           ELSE SaveReturns(0)
     \/ /\ \E k \in 0..1 : target' = File(SubSeq(<<count, next_id>>, 1, k))
        /\ SaveReturns(-1)
        /\ UNCHANGED snap
  /\ UNCHANGED <<todos, count, next_id, clock, issued, sv, backup, sessions,
                 export>>

\* fwrite(list->todos, sizeof(Todo), list->count, file), fclose
SaveRecords ==
  /\ pc = "sv_recs"
  /\ \/ /\ target' = File(target.data \o SubSeq(todos, 1, count))
        /\ SaveReturns(0)
     \/ /\ \E k \in 0..(count - 1) : target' = File(target.data \o SubSeq(todos, 1, k))
        /\ SaveReturns(-1)
        /\ UNCHANGED snap
  /\ UNCHANGED <<todos, count, next_id, clock, issued, sv, backup, sessions,
                 export>>

(***************************************************************************)
(* main leaves: todo_list_destroy, return 0.                               *)
(***************************************************************************)
Off ==
  /\ pc' = "off"
  /\ todos' = <<>>
  /\ count' = 0
  /\ next_id' = 1
  /\ last' = NoCall
  /\ issued' = <<>>
  /\ sv' = NoSave

Exit ==
  /\ pc = "exit"
  /\ Off
  /\ UNCHANGED <<clock, target, backup, snap, ever_saved, sessions, export>>

(***************************************************************************)
(* The process is killed.  A file it was writing keeps some prefix of what *)
(* had been written to it (stdio buffers the rest).                        *)
(***************************************************************************)
Crash ==
  /\ pc \notin {"off"}
  /\ Off
  /\ IF pc \in {"sv_hdr", "sv_recs"}
     THEN \E d \in Prefixes(target.data) : target' = File(d)
     ELSE UNCHANGED target
  /\ IF pc = "bk_copy"
     THEN \E d \in Prefixes(backup.data) : backup' = File(d)
     ELSE UNCHANGED backup
  /\ UNCHANGED <<clock, snap, ever_saved, sessions, export>>

(***************************************************************************)
(* SpecIO: runs of the program, one after the other, on one data           *)
(* directory.  The menu makes its calls with the arguments below.          *)
(***************************************************************************)
MenuCreateArgs == {<<Str(1), NULL, PRIORITY_LOW>>}

InitIO ==
  /\ todo_list_create
  /\ clock = 0
  /\ last = NoCall
  /\ issued = <<>>
  /\ pc = "off"
  /\ sv = NoSave
  /\ target = NoFile
  /\ backup = NoFile
  /\ snap = NoSnap
  /\ ever_saved = FALSE
  /\ sessions = 0
  /\ export = NoExport

AtPrompt == pc = "menu" /\ AtMenu

NextIO ==
  \/ Start
  \/ AtPrompt /\ UNCHANGED iovars
              /\ \E a \in MenuCreateArgs : todo_create(a[1], a[2], a[3])
  \/ AtPrompt /\ UNCHANGED iovars
              /\ \E id \in Ids : todo_complete(id)
  \/ Return /\ UNCHANGED iovars
  \/ \E exiting \in BOOLEAN : SaveCall(exiting)
  \/ BackupOpen
  \/ BackupCopy
  \/ SaveOpen
  \/ SaveHeader
  \/ SaveRecords
  \/ Exit
  \/ Crash

SpecIO == InitIO /\ [][NextIO]_vars

(***************************************************************************)
(* SpecRT: a list built by any sequence of calls in the first run of the   *)
(* program is saved when that run leaves, and the next run loads the file  *)
(* into its fresh list.                                                    *)
(***************************************************************************)
FirstRun == pc = "menu" /\ sessions = 1

NextRT ==
  \/ FirstRun /\ AtMenu /\ UNCHANGED iovars
              /\ \E a \in CreateArgs : todo_create(a[1], a[2], a[3])
  \/ FirstRun /\ AtMenu /\ UNCHANGED iovars
              /\ \E id \in Ids, a \in UpdateArgs : todo_update(id, a[1], a[2], a[3])
  \/ FirstRun /\ AtMenu /\ UNCHANGED iovars
              /\ \E id \in Ids : todo_delete(id)
  \/ FirstRun /\ AtMenu /\ UNCHANGED iovars
              /\ \E id \in Ids : todo_complete(id)
  \/ FirstRun /\ AtMenu /\ UNCHANGED iovars
              /\ \E id \in Ids : todo_mark_pending(id)
  \/ FirstRun /\ Return /\ UNCHANGED iovars
  \/ FirstRun /\ SaveCall(TRUE)
  \/ SaveOpen
  \/ SaveHeader
  \/ SaveRecords
  \/ Exit
  \/ Start

SpecRT == Init /\ [][NextRT]_vars

(***************************************************************************)
(* export_todos_to_text(list, filename), with a file name other than that  *)
(* of the data file.  A line of the text is the fprintf that wrote it: its *)
(* label and the value it formats.                                         *)
(***************************************************************************)
get_priority_string(priority) ==
  IF priority = PRIORITY_LOW THEN "Low"
  ELSE IF priority = PRIORITY_MEDIUM THEN "Medium"
  ELSE IF priority = PRIORITY_HIGH THEN "High"
  ELSE "Unknown"

get_status_string(status) ==
  IF status = STATUS_PENDING THEN "Pending"
  ELSE IF status = STATUS_COMPLETED THEN "Completed"
  ELSE "Unknown"

ctime(t) == <<"ctime", t>>

TodoText(todo) ==
  << <<"--- Todo #", todo.id>>,
     <<"Title: ", todo.title>>,
     <<"Description: ", IF todo.description # <<>>
                        THEN todo.description
                        ELSE <<"(No description)">> >>,
     <<"Priority: ", get_priority_string(todo.priority)>>,
     <<"Status: ", get_status_string(todo.status)>>,
     <<"Created: ", ctime(todo.created_at)>>,
     <<"Updated: ", ctime(todo.updated_at)>>,
     <<"">> >>

RECURSIVE TodosText(_, _)
TodosText(ts, n) ==
  IF n = 0 THEN <<>> ELSE TodosText(ts, n - 1) \o TodoText(ts[n])

ExportText(l, now) ==
  << <<"=== TODO LIST EXPORT ===">>,
     <<"Export Date: ", ctime(now)>>,
     <<"Total Todos: ", l.count>> >>
  \o (IF l.count = 0 THEN << <<"No todos found.">> >> ELSE TodosText(l.todos, l.count))

\* a variant of the export that keeps the file it replaces, as the save does
ExportedWithBackup(e, data) ==
  [file |-> File(data), backup |-> IF e.file.exists THEN e.file ELSE e.backup]

\* fopen(filename, "w") followed by the fprintf that got through
Exported(e, data) == [e EXCEPT !.file = File(data)]

\* what is in the file when the fprintf stop getting through at its first
\* line, after its three lines of heading, or never
Written(text) == {<<>>, SubSeq(text, 1, 3), text}

\* menu choice 8.  No return value of fprintf or fclose is looked at: the
\* export returns 0 once the file is open, whatever part of the text got
\* into it.
Export ==
  /\ pc = "menu"
  /\ AtMenu
  /\ \/ /\ \E d \in Written(ExportText(store, clock)) : export' = Exported(export, d)
        /\ last' = [NoCall EXCEPT !.op = "export", !.ret = 0, !.msg = "exported",
                                  !.old = store]
     \/ /\ last' = [NoCall EXCEPT !.op = "export", !.ret = -1, !.msg = "open",
                                  !.old = store]
        /\ UNCHANGED export
  /\ UNCHANGED <<todos, count, next_id, clock, issued,
                 pc, sv, target, backup, snap, ever_saved, sessions>>

(***************************************************************************)
(* SpecX: one run of the program in which the menu creates, completes,     *)
(* saves (choice 7) and exports.  The name given to the export may be that *)
(* of a file that is there already, with a ".backup" file next to it.      *)
(***************************************************************************)
OldExport == [file |-> File(<< <<"old text">> >>), backup |-> File(<< <<"old backup">> >>)]

InitX ==
  /\ todo_list_create
  /\ clock = 0
  /\ last = NoCall
  /\ issued = <<>>
  /\ pc = "menu"
  /\ sv = NoSave
  /\ target = NoFile
  /\ backup = NoFile
  /\ snap = NoSnap
  /\ ever_saved = FALSE
  /\ sessions = 1
  /\ export \in {NoExport, OldExport}

NextX ==
  \/ AtPrompt /\ UNCHANGED iovars
              /\ \E a \in MenuCreateArgs : todo_create(a[1], a[2], a[3])
  \/ AtPrompt /\ UNCHANGED iovars
              /\ \E id \in Ids : todo_complete(id)
  \/ Export
  \/ Return /\ UNCHANGED iovars
  \/ SaveCall(FALSE)
  \/ BackupOpen
  \/ BackupCopy
  \/ SaveOpen
  \/ SaveHeader
  \/ SaveRecords

SpecX == InitX /\ [][NextX]_vars

(***************************************************************************)
(* The records below count, and a sequence with one position removed.      *)
(***************************************************************************)
Live(l) == SubSeq(l.todos, 1, l.count)

Without(ts, k) == SubSeq(ts, 1, k - 1) \o SubSeq(ts, k + 1, Len(ts))

ValidationMsgs == {"title_too_long", "desc_too_long"}

\* C1: the IDs returned by the successful creates start at 1, are strictly
\* increasing and none is returned twice, whatever deletes came in between.
C1_IdsStrictlyIncreasing ==
  /\ Len(issued) > 0 => issued[1] = 1
  /\ \A i, j \in 1..Len(issued) : i < j => issued[i] < issued[j]
  /\ (last.op = "create" /\ last.ret # -1) => issued[Len(issued)] = last.ret

\* create -> 1, create -> 2, delete(1), create -> 3
C1_Witness ==
  /\ issued = <<1, 2, 3>>
  /\ last.op = "create" /\ last.ret = 3
  /\ count = 2
  /\ todos[1].id = 2

\* C2: a todo_update refused for the length of its title or description
\* modifies no field of any record.
C2_UpdateAllOrNothing ==
  (last.op = "update" /\ last.msg \in ValidationMsgs) => store = last.old

\* C4: with a title and a description it accepts, todo_create fails exactly
\* when count = capacity before the call, and the failed call leaves count,
\* next_id and the records as they were.
C4_CapacityFailure ==
  (last.op = "create" /\ last.title # NULL /\ Accepted(last.title, last.description))
    => /\ (last.ret = -1) <=> (last.old.count = capacity)
       /\ (last.ret = -1) => store = last.old

C4_Witness ==
  /\ last.op = "create" /\ last.ret = -1
  /\ last.title = Str(MAX_TITLE_LENGTH - 1) /\ last.description = NULL
  /\ last.old.count = capacity
  /\ next_id = capacity + 1

\* C5: a successful todo_create returns the old next_id and puts one record at
\* position count (the end) with that id, status Pending, the given priority
\* and created_at = updated_at = the current time; count and next_id grow by
\* one and the records that were there keep their positions and values.
C5_CreateAppends ==
  (last.op = "create" /\ last.ret # -1)
    => /\ last.ret = last.old.next_id
       /\ count = last.old.count + 1
       /\ next_id = last.old.next_id + 1
       /\ Len(todos) = count
       /\ SubSeq(todos, 1, count - 1) = Live(last.old)
       /\ todos[count].id = last.old.next_id
       /\ todos[count].status = STATUS_PENDING
       /\ todos[count].priority = last.priority
       /\ todos[count].created_at = clock
       /\ todos[count].updated_at = clock

C5_Witness ==
  /\ last.op = "create" /\ last.ret = 3 /\ last.priority = PRIORITY_HIGH
  /\ count = 2
  /\ todos[1].id = 1
  /\ todos[1].status = STATUS_COMPLETED
  /\ todos[2].id = 3
  /\ clock = MaxTime

\* C6: todo_create with a title of length 0 fails and leaves count, next_id
\* and the records as they were.
C6_EmptyTitleRejected ==
  (last.op = "create" /\ last.title = Str(0)) => (last.ret = -1 /\ store = last.old)

\* C7: todo_create and todo_update refuse a title of length >= MAX_TITLE_LENGTH
\* and a provided description of length >= MAX_DESC_LENGTH, a refused create
\* leaving count and next_id alone, and accept the shorter ones (a create when
\* the list is not full, an update when the id exists); every live record's
\* title is shorter than MAX_TITLE_LENGTH and its description shorter than
\* MAX_DESC_LENGTH.
C7_LengthsBounded ==
  \A i \in 1..count :
    /\ strlen(todos[i].title) < MAX_TITLE_LENGTH
    /\ strlen(todos[i].description) < MAX_DESC_LENGTH

C7_CreateChecksLengths ==
  (last.op = "create" /\ last.title # NULL)
    => IF Accepted(last.title, last.description)
       THEN last.old.count < capacity => last.ret # -1
       ELSE last.ret = -1 /\ count = last.old.count /\ next_id = last.old.next_id

C7_UpdateChecksLengths ==
  last.op = "update"
    => IF Accepted(last.title, last.description)
       THEN todo_find_by_id(last.old.todos, last.old.count, last.id) # 0 => last.ret = 0
       ELSE last.ret = -1

Complete(f) ==
  /\ f.exists
  /\ Len(f.data) >= 2
  /\ Len(f.data) = 2 + HeaderCount(f.data)

\* C3: once a save has written a whole snapshot, the target and its backup
\* are never both incomplete, whatever save fails or is killed at whatever
\* step and whatever the next run of the program loads and saves.
C3_OneCopyComplete == ever_saved => (Complete(target) \/ Complete(backup))

\* C9: a list written by a save that succeeded comes back from the load of
\* that file into a fresh list: the load returns 0 and count, next_id and
\* the records, position by position, are those that were saved.
C9_RoundTrip ==
  (last.op = "load" /\ snap # NoSnap)
    => /\ last.ret = 0
       /\ count = snap.count
       /\ next_id = snap.next_id
       /\ \A i \in 1..count : todos[i] = snap.todos[i]

\* a list of one completed, updated record whose next_id is not count + 1
C9_Witness ==
  /\ last.op = "load" /\ last.ret = 0
  /\ snap # NoSnap
  /\ count = 1
  /\ next_id = 4
  /\ todos[1].id = 2
  /\ todos[1].status = STATUS_COMPLETED
  /\ todos[1].description = Str(1)

\* C10: when the target exists and create_backup succeeds, the backup holds
\* the target's contents as they were when the save was called, item for
\* item, before the target is opened for writing, and the target is not
\* touched until then; after that save has returned 0 the backup still holds
\* them and the target holds the new snapshot.
C10_BackupBeforeOverwrite ==
  /\ pc \in {"bk_open", "bk_copy"} => target = sv.pre
  /\ (pc = "sv_open" /\ sv.bk = "ok") => (backup = sv.pre /\ target = sv.pre)
  /\ (pc \in {"sv_hdr", "sv_recs"} /\ sv.bk = "ok") => backup = sv.pre
  /\ (last.op = "save" /\ last.ret = 0 /\ sv.bk = "ok")
       => (backup = sv.pre /\ target = File(Snapshot(store)))

C10_Witness ==
  /\ last.op = "save" /\ last.ret = 0
  /\ sv.bk = "ok"
  /\ Len(sv.pre.data) = 3
  /\ backup = sv.pre
  /\ Len(target.data) = 4

(***************************************************************************)
(* The failing outcomes of todo_create and todo_update, by their cause.    *)
(***************************************************************************)
\* what todo_create returns from its first branch, taken when the list is full
CreateFullResult == -1

\* what todo_update returns when todo_find_by_id finds no record
UpdateNotFoundResult == -1

CapacityFailure ==
  /\ last.op = "create" /\ last.msg = "invalid_or_full"
  /\ last.title # NULL

ValidationFailure(op) == last.op = op /\ last.msg \in ValidationMsgs

NotFoundFailure == last.op = "update" /\ last.msg = "not_found"

\* C11: the value todo_create returns for a full list is never one it returns
\* for a title or description that is too long, and the value todo_update
\* returns for an id that is not there is never one it returns for a title
\* or description that is too long.
C11_FailuresDistinguishable ==
  /\ CapacityFailure => last.ret = CreateFullResult
  /\ ValidationFailure("create") => last.ret # CreateFullResult
  /\ NotFoundFailure => last.ret = UpdateNotFoundResult
  /\ ValidationFailure("update") => last.ret # UpdateNotFoundResult

StatusOps == {"complete", "mark_pending"}

Requested(op) == IF op = "complete" THEN STATUS_COMPLETED ELSE STATUS_PENDING

\* C12: todo_complete / todo_mark_pending on a record that exists returns 0;
\* when the record already has the status asked for, the whole list,
\* updated_at included, is as it was; otherwise the record gets that status
\* and updated_at = the current time (later than the old one whenever the
\* clock has moved since), no other field of it changes, and neither do the
\* other records, count or next_id.
C12_StatusTransitions ==
  last.op \in StatusOps
    => LET k == todo_find_by_id(last.old.todos, last.old.count, last.id)
           before == last.old.todos[k]
       IN  k # 0
             => /\ last.ret = 0
                /\ IF before.status = Requested(last.op)
                   THEN store = last.old
                   ELSE /\ count = last.old.count
                        /\ next_id = last.old.next_id
                        /\ \A i \in 1..count : i # k => todos[i] = last.old.todos[i]
                        /\ todos[k] = [before EXCEPT !.status = Requested(last.op),
                                                     !.updated_at = clock]
                        /\ clock > before.updated_at
                             => todos[k].updated_at > before.updated_at

\* create at time 0, complete it at time 1, then complete it again at time 2
\* or later: the second call changes nothing
C12_Witness ==
  /\ last.op = "complete" /\ last.msg = "already" /\ last.ret = 0
  /\ count = 2
  /\ todos[2].id = last.id
  /\ todos[2].status = STATUS_COMPLETED
  /\ todos[2].updated_at > todos[2].created_at
  /\ clock > todos[2].updated_at

Priorities == {PRIORITY_LOW, PRIORITY_MEDIUM, PRIORITY_HIGH}

\* C13: a todo_update on a record that exists, with a title and description
\* it accepts, returns 0 whatever the priority argument is; the record's
\* priority becomes the argument when that is one of Low, Medium, High and
\* stays as it was otherwise, and the title and the description provided
\* are stored in both cases.  No live record ever has a priority outside
\* {Low, Medium, High}.
C13_PriorityOutOfRangeIgnored ==
  /\ \A i \in 1..count : todos[i].priority \in Priorities
  /\ (last.op = "update" /\ Accepted(last.title, last.description))
       => LET k == todo_find_by_id(last.old.todos, last.old.count, last.id)
              before == last.old.todos[k]
          IN  k # 0
                => /\ last.ret = 0
                   /\ todos[k].priority = IF last.priority \in Priorities
                                          THEN last.priority
                                          ELSE before.priority
                   /\ todos[k].title = IF last.title # NULL
                                       THEN last.title
                                       ELSE before.title
                   /\ todos[k].description = IF last.description # NULL
                                             THEN last.description
                                             ELSE before.description

\* a record of priority High gets a new title and description with the
\* priority argument one above High
C13_Witness ==
  /\ last.op = "update" /\ last.ret = 0
  /\ last.priority = PRIORITY_HIGH + 1
  /\ last.title = Str(0) /\ last.description = Str(1)
  /\ last.old.todos[1].id = last.id
  /\ last.old.todos[1].title = Str(1)
  /\ last.old.todos[1].priority = PRIORITY_HIGH
  /\ todos[1].title = Str(0)
  /\ todos[1].description = Str(1)
  /\ todos[1].priority = PRIORITY_HIGH

\* C14: the load main makes into its fresh list takes the "no file" way out
\* exactly when data/todos.dat does not exist; it then returns 0, the list
\* is empty with count = 0 and next_id = 1, and there is still no file.
C14_LoadWithoutFile ==
  last.op = "load"
    => /\ (last.msg = "no_file") <=> ~target.exists
       /\ ~target.exists
            => /\ last.ret = 0
               /\ store = List(<<>>, 0, 1)
               /\ target = NoFile

\* the first run of the program on an empty data directory
C14_Witness ==
  /\ last.op = "load" /\ last.ret = 0 /\ last.msg = "no_file"
  /\ sessions = 1
  /\ target = NoFile
  /\ backup = NoFile
  /\ count = 0 /\ next_id = 1

\* the blocks a file holds after its header
BlocksIn(f) == SubSeq(f.data, 3, Len(f.data))

\* C15: a load that has read the header fails and leaves the list as it was
\* when the header's count is below 0 or above MAX_TODOS; with a count from
\* 0 to MAX_TODOS it succeeds exactly when the file holds at least that many
\* blocks, and then count and next_id are the header's two values as they
\* stand and the records are the first count blocks of the file, in order.
C15_HeaderCountChecked ==
  (last.op = "load" /\ last.msg # "open" /\ target.exists /\ Len(target.data) >= 2)
    => LET c == HeaderCount(target.data) IN
       IF c < 0 \/ c > capacity
       THEN last.ret = -1 /\ store = last.old
       ELSE /\ (last.ret = 0) <=> (Len(BlocksIn(target)) >= c)
            /\ last.ret = 0
                 => /\ count = c
                    /\ next_id = HeaderNextId(target.data)
                    /\ Live(store) = SubSeq(BlocksIn(target), 1, c)

\* a list of one record loads a file of count 2, next_id 0 and three blocks
C15_Witness ==
  /\ last.op = "load" /\ last.ret = 0
  /\ last.old.count = 1
  /\ Len(target.data) = MAX_TODOS + 3
  /\ target.data[1] = MAX_TODOS /\ target.data[2] = 0
  /\ count = MAX_TODOS
  /\ next_id = 0
  /\ todos[MAX_TODOS] = FileTodo(MAX_TODOS)

\* the step in which the last fwrite of save_todos_to_file puts the whole
\* snapshot of the list into the target
WriteCompletes ==
  /\ pc = "sv_recs" \/ (pc = "sv_hdr" /\ count = 0)
  /\ target' = File(Snapshot(store))

\* C16: the step in which create_backup fails leads save_todos_to_file to the
\* fopen of the target, with the target untouched and nothing returned yet;
\* and when the backup has failed, the step that completes the write of the
\* snapshot returns 0 and leaves the list as it is.
C16_BackupFailureNotFatal ==
  [][ /\ (sv.bk # "failed" /\ sv'.bk = "failed")
           => (pc' = "sv_open" /\ target' = target /\ last' = last)
      /\ (sv.bk = "failed" /\ WriteCompletes)
           => (last'.op = "save" /\ last'.ret = 0 /\ store' = store) ]_vars

\* the target was there, the backup could not be made in full, and the save
\* has put the new snapshot in the target and returned 0
C16_Witness ==
  /\ last.op = "save" /\ last.ret = 0
  /\ sv.bk = "failed"
  /\ sv.pre.exists
  /\ backup # sv.pre
  /\ target = File(Snapshot(store))
  /\ target # sv.pre

SavePhases == {"bk_open", "bk_copy", "sv_open", "sv_hdr", "sv_recs"}

\* where main stands once it has called the save after which it leaves
C17_Leaving ==
  /\ sv.exiting => pc \in SavePhases \cup {"exit"}
  /\ pc = "exit" => (sv.exiting /\ last.op = "save" /\ last.old = store)

C17_Steps ==
  /\ (pc = "off" /\ pc' # "off")
       => (pc' = "menu" /\ last'.op = "load" /\ last'.old = List(<<>>, 0, 1))
  /\ (last'.op = "load" /\ last' # last) => pc = "off"
  /\ (pc' = "exit" /\ pc # "exit")
       => (pc \in SavePhases /\ sv.exiting /\ last'.op = "save")
  /\ (sv'.exiting /\ ~sv.exiting) => (pc = "menu" /\ pc' \in SavePhases)
  /\ sv.exiting => (pc' = "off" \/ (sv'.exiting /\ store' = store))

\* C17: a run of the program goes from its start to the menu through one load
\* into the fresh list, and no load is made later; main gets to the end of
\* its loop only from a save that was called for leaving (choice 9, end of
\* input at the menu or at "Press Enter"), that call is made once in a run,
\* the list does not change from that call to the end of the run, and at the end
\* the last call made is that save, of the list as it then is.
C17_LoadAtStartSaveAtExit == [] C17_Leaving /\ [][C17_Steps]_vars

\* the second run, about to leave, has saved the two records it holds
C17_Witness ==
  /\ pc = "exit"
  /\ sessions = 2
  /\ last.op = "save" /\ last.ret = 0
  /\ count = 2
  /\ target = File(Snapshot(store))

\* C18: whatever calls of create, update, delete, complete, mark_pending and
\* load have been made, and whether the loads succeeded or failed, count is
\* at least 0 and at most MAX_TODOS, and the records are those of the slots
\* below count.
C18_CountWithinCapacity ==
  /\ count >= 0
  /\ count <= MAX_TODOS
  /\ Len(todos) = count

\* a load has filled the list from a file, and a create is refused
C18_Witness ==
  /\ last.op = "create" /\ last.ret = -1 /\ last.msg = "invalid_or_full"
  /\ count = MAX_TODOS
  /\ todos[1] = FileTodo(1)
  /\ todos[MAX_TODOS] = FileTodo(MAX_TODOS)

C19_IdsBelowNextId ==
  /\ \A i, j \in 1..count : i # j => todos[i].id # todos[j].id
  /\ \A i \in 1..count : todos[i].id < next_id
  /\ \A i \in 1..Len(issued) : issued[i] < next_id
  /\ ~AtMenu
       => /\ next_id >= last.old.next_id
          /\ next_id # last.old.next_id => (last.op = "create" /\ last.ret # -1)

\* C19: on a list started by todo_list_create, after any calls of create,
\* update, delete, complete and mark_pending, no two live records have the
\* same id, next_id is above the id of every live record and above every id
\* a create has returned (those of deleted records too), no step lowers
\* next_id, and a call that leaves next_id changed is a successful create.
C19_NextIdAboveAllIds == [] C19_IdsBelowNextId /\ [][next_id' >= next_id]_vars

\* three creates with a delete between them, then the delete of the second
\* record: next_id stays above the three IDs handed out
C19_Witness ==
  /\ last.op = "delete" /\ last.ret = 0 /\ last.id = 2
  /\ issued = <<1, 2, 3>>
  /\ count = 1
  /\ todos[1].id = 3
  /\ next_id = 4

\* C20: a load that fails, for whatever reason (the file cannot be opened,
\* the header is short, the count is out of range, or fewer blocks than the
\* header says can be read), leaves count, next_id and every live record of
\* the list as they were, whether the list was empty or not.
C20_FailedLoadKeepsStore ==
  (last.op = "load" /\ last.ret = -1) => store = last.old

\* C21: with a clock that never goes back, every live record has
\* updated_at >= created_at; the two are equal in the record a create has
\* just made; and a record that was there before a call of update, complete,
\* mark_pending, delete or create and is still there has the created_at it
\* had.
C21_UpdatedNotBeforeCreated ==
  /\ \A i \in 1..count : todos[i].updated_at >= todos[i].created_at
  /\ (last.op = "create" /\ last.ret # -1)
       => todos[count].updated_at = todos[count].created_at
  /\ ~AtMenu
       => \A i \in 1..count : \A j \in 1..last.old.count :
            todos[i].id = last.old.todos[j].id
              => todos[i].created_at = last.old.todos[j].created_at

\* a record made at time 0 is updated two seconds later, next to a record
\* made in between
C21_Witness ==
  /\ last.op = "update" /\ last.ret = 0 /\ last.title = Str(0)
  /\ count = 2
  /\ todos[1].id = last.id
  /\ todos[1].created_at = 0
  /\ todos[1].updated_at = 2
  /\ todos[2].created_at = 1
  /\ clock = 2

ByIdOps == {"update", "delete", "complete", "mark_pending"}

\* the positions of the records of a list that have the given id
Holders(l, id) == {i \in 1..l.count : l.todos[i].id = id}

\* C22: update, delete, complete and mark_pending called with an id that no
\* live record has return -1 and leave count, next_id and every record, in
\* its place, as they were; todo_find_by_id leaves the list as it was,
\* returns NULL when no live record has the id and otherwise the record that
\* has it, which is the only one.
C22_AbsentIdLeavesStore ==
  /\ (last.op \in ByIdOps /\ Holders(last.old, last.id) = {})
       => (last.ret = -1 /\ store = last.old)
  /\ last.op = "find"
       => /\ store = last.old
          /\ IF Holders(store, last.id) = {}
             THEN last.ret = 0
             ELSE Holders(store, last.id) = {last.ret}

\* after the delete of the first of two records, the other one, now in the
\* first slot, is found and the deleted one was not
C22_Witness ==
  /\ last.op = "find" /\ last.id = 2 /\ last.ret = 1
  /\ issued = <<1, 2>>
  /\ count = 1
  /\ todos[1].id = 2

\* C23: a todo_update on a record that exists, with a title and description
\* it accepts, returns 0 and leaves the record with updated_at = the current
\* time, also when it is given no title, no description and a priority
\* outside Low .. High; the record keeps its id, status and created_at, the
\* other records keep every field, and count and next_id stay.
C23_UpdateAlwaysStamps ==
  (last.op = "update" /\ Accepted(last.title, last.description))
    => LET k == todo_find_by_id(last.old.todos, last.old.count, last.id)
           before == last.old.todos[k]
       IN  k # 0
             => /\ last.ret = 0
                /\ count = last.old.count
                /\ next_id = last.old.next_id
                /\ \A i \in 1..count : i # k => todos[i] = last.old.todos[i]
                /\ todos[k].updated_at = clock
                /\ todos[k].id = before.id
                /\ todos[k].status = before.status
                /\ todos[k].created_at = before.created_at

\* an update with nothing to change, two seconds after the record was made
\* and completed
C23_Witness ==
  /\ last.op = "update" /\ last.ret = 0
  /\ last.title = NULL /\ last.description = NULL /\ last.priority = -1
  /\ count = 2
  /\ todos[2].id = last.id
  /\ last.old.todos[2].updated_at = 0
  /\ todos[2].updated_at = 2
  /\ todos[2].created_at = 0
  /\ todos[2].status = STATUS_COMPLETED
  /\ todos[2].title = last.old.todos[2].title
  /\ todos[2].priority = last.old.todos[2].priority

\* what an export and a save leave of the list and of the export's files
C24_AfterExport ==
  last.op = "export"
    => /\ store = last.old
       /\ last.ret = 0
            => /\ export.file.exists
               /\ export.file.data \in Written(ExportText(store, clock))

C24_Steps ==
  /\ export'.backup = export.backup
  /\ (pc \in SavePhases \/ pc' \in SavePhases) => store' = store
  /\ (last'.op \in {"export", "save"} /\ last' # last) => store' = store

\* C24: no step of save_todos_to_file and no export_todos_to_text, whether
\* it returns 0 or -1, changes count, next_id or a record; an export that
\* has opened its file leaves in it the text of the list, or the part of it
\* that got written, and nothing of what the file held; and the file of the
\* export's name with ".backup" after it is never made nor written, whether
\* or not the export's file, or that backup, was there before.
C24_ExportOverwritesNoBackup == [] C24_AfterExport /\ [][C24_Steps]_vars

\* the export replaces a file that was there, next to its ".backup", after
\* the list has been saved twice
C24_Witness ==
  /\ last.op = "export" /\ last.ret = 0
  /\ count = 2
  /\ export.file = File(ExportText(store, clock))
  /\ export.backup = OldExport.backup
  /\ backup.exists
  /\ target = File(Snapshot(store))

=============================================================================
